---- MODULE Spec2Model ----
(***************************************************************************)
(* Polyomino enumerator (polyomino.cpp): Point, Polyomino, ShapeNormalizer, *)
(* ShapeGenerator::getExtensions and the level-wise loop of                 *)
(* ShapeGenerator::enumerate, with the calls it makes to ProgressTracker.   *)
(*                                                                          *)
(* A Polyomino is modelled by its `cells` vector: a sequence of Points.     *)
(* A std::set<T> is modelled by the sequence of its elements in iteration   *)
(* order (strictly increasing in T's operator<).                            *)
(***************************************************************************)
EXTENDS Integers, Sequences, FiniteSets, TLC

\* Largest config.N explored by the enumeration specification.
MaxN == 6
\* Largest number of cells of a shape explored by the shape specification.
MaxCells == 5

\* The three values InputValidator::validateConfig accepts for config.type.
Types == {"free", "one-sided", "fixed"}

\* ProgressTracker::update is called when total_generated is a multiple of it.
ProgressEvery == 100

----------------------------------------------------------------------------
(* A C++ argument is evaluated once, before the body of the callee runs.    *)
(* The operators below say so with                                          *)
(*     CHOOSE r \in { body : v \in { argument } } : TRUE                    *)
(* which is `body` with v naming the value of `argument`.                   *)

(* struct Point *)

Point(x, y) == [x |-> x, y |-> y]

\* Point::operator<
PointLess(a, b) == a.x < b.x \/ (a.x = b.x /\ a.y < b.y)

\* Point::operator+
PointPlus(a, b) == Point(a.x + b.x, a.y + b.y)

\* ShapeGenerator::directions (up, down, left, right)
directions == << Point(0, 1), Point(0, -1), Point(1, 0), Point(-1, 0) >>

----------------------------------------------------------------------------
(* class Polyomino *)

\* The position std::sort gives to each element: one more than the number
\* of elements that are less, or equivalent and earlier (equivalent points
\* are equal, so their mutual order does not show).
SortedPosition(points) ==
    CHOOSE r \in
        { [j \in 1..Len(cells) |->
              1 + Cardinality({ k \in 1..Len(cells) :
                                  \/ PointLess(cells[k], cells[j])
                                  \/ (k < j /\ ~ PointLess(cells[j], cells[k])) })]
          : cells \in { points } } : TRUE

\* std::sort(cells.begin(), cells.end()) with Point::operator<
SortCells(points) ==
    CHOOSE r \in
        { CHOOSE q \in
              { [i \in 1..Len(cells) |-> cells[CHOOSE j \in 1..Len(cells) : position[j] = i]]
                : position \in { SortedPosition(cells) } } : TRUE
          : cells \in { points } } : TRUE

\* The min_x the first loop of normalize ends with.
MinX(cells) ==
    CHOOSE m \in { cells[j].x : j \in 1..Len(cells) } :
        \A n \in { cells[j].x : j \in 1..Len(cells) } : m <= n

\* The min_y the first loop of normalize ends with.
MinY(cells) ==
    CHOOSE m \in { cells[j].y : j \in 1..Len(cells) } :
        \A n \in { cells[j].y : j \in 1..Len(cells) } : m <= n

\* The second loop of normalize: every cell moved by (-min_x, -min_y).
Translate(points) ==
    CHOOSE r \in
        { CHOOSE q \in
              { [i \in 1..Len(cells) |-> Point(cells[i].x - min_x, cells[i].y - min_y)]
                : min_x \in { MinX(cells) }, min_y \in { MinY(cells) } } : TRUE
          : cells \in { points } } : TRUE

\* A plausible slip: the cells are translated but the final sort is left out.
normalizeNoSort(points) ==
    CHOOSE r \in
        { IF cells = << >> THEN cells ELSE Translate(cells)
          : cells \in { points } } : TRUE

\* Polyomino::normalize: translate to the origin, then sort.
normalize(points) ==
    CHOOSE r \in
        { IF cells = << >> THEN cells ELSE SortCells(Translate(cells))
          : cells \in { points } } : TRUE

\* explicit Polyomino(const std::vector<Point>&)
Polyomino(points) == normalize(points)

\* Polyomino::addCell
addCell(poly, p) == normalize(Append(poly, p))

\* Polyomino::rotate, (x, y) -> (y, -x)
rotate(poly) ==
    CHOOSE r \in
        { Polyomino([i \in 1..Len(cells) |-> Point(cells[i].y, 0 - cells[i].x)])
          : cells \in { poly } } : TRUE

\* Polyomino::reflect, (x, y) -> (-x, y)
reflect(poly) ==
    CHOOSE r \in
        { Polyomino([i \in 1..Len(cells) |-> Point(0 - cells[i].x, cells[i].y)])
          : cells \in { poly } } : TRUE

\* Polyomino::operator< : std::vector's lexicographical comparison of the cells.
PolyLess(a, b) ==
    \/ \E i \in 1..Len(a) :
          /\ i <= Len(b)
          /\ \A j \in 1..(i - 1) : a[j] = b[j]
          /\ PointLess(a[i], b[i])
    \/ /\ Len(a) < Len(b)
       /\ \A j \in 1..Len(a) : a[j] = b[j]

\* Polyomino::operator==
PolyEq(a, b) == a = b

----------------------------------------------------------------------------
(* class ShapeNormalizer *)

\* The four variants pushed by one `for (int i = 0; i < 4; ++i)` loop.
Rotations(shape) ==
    CHOOSE r \in
        { << current, rotate(current), rotate(rotate(current)),
             rotate(rotate(rotate(current))) >>
          : current \in { shape } } : TRUE

\* std::min_element with Polyomino::operator<: the first element that no
\* element is less than.
MinElement(variants) ==
    CHOOSE r \in
        { v[CHOOSE i \in 1..Len(v) :
                /\ \A j \in 1..Len(v) : ~ PolyLess(v[j], v[i])
                /\ \A j \in 1..(i - 1) : PolyLess(v[i], v[j])]
          : v \in { variants } } : TRUE

\* A plausible slip: both rotation loops run `i < 3`.
getCanonicalThreeRotations(enumeration_type, shape) ==
    MinElement(SubSeq(Rotations(shape), 1, 3) \o
               (IF enumeration_type = "free" \/ enumeration_type = "one-sided"
                   THEN SubSeq(Rotations(reflect(shape)), 1, 3)
                   ELSE << >>))

\* A plausible slip: the reflected shape is added but never rotated.
getCanonicalReflectOnce(enumeration_type, shape) ==
    MinElement(Rotations(shape) \o
               (IF enumeration_type = "free" \/ enumeration_type = "one-sided"
                   THEN << reflect(shape) >>
                   ELSE << >>))

\* A plausible slip: the reflections are never added.
getCanonicalNoReflection(enumeration_type, shape) ==
    MinElement(Rotations(shape))

\* ShapeNormalizer::getCanonical: the smallest of the variants, which are the
\* four rotations and, for "free" and "one-sided", those of the reflection.
getCanonical(enumeration_type, shape) ==
    MinElement(Rotations(shape) \o
               (IF enumeration_type = "free" \/ enumeration_type = "one-sided"
                   THEN Rotations(reflect(shape))
                   ELSE << >>))

----------------------------------------------------------------------------
(* ShapeGenerator::getExtensions *)

\* A plausible slip: a container that keeps equal points (a vector, sorted).
PointSetKeepAll(points) == SortCells(points)

\* A std::set<Point> after the insertion of every point of a list: the
\* distinct points, in increasing order.
PointSet(points) ==
    CHOOSE r \in
        { LET before == [c \in distinct |->
                            Cardinality({ d \in distinct : PointLess(d, c) })]
          IN  CHOOSE q \in
                  { [i \in 1..Cardinality(distinct) |->
                        CHOOSE c \in distinct : b[c] = i - 1]
                    : b \in { before } } : TRUE
          : distinct \in
              { UNION { { list[j] : j \in 1..Len(list) } : list \in { points } } } }
        : TRUE

\* A plausible slip: the occupancy check is left out.
AlreadyExistsNever(poly, candidate) == FALSE

\* The `already_exists` flag of getExtensions: candidate is a cell of poly.
AlreadyExists(poly, candidate) == \E i \in 1..Len(poly) : poly[i] = candidate

\* The points handed to candidates.insert, in the order of the two loops
\* (cells outer, directions inner).
Inserted(poly) ==
    CHOOSE r \in
        { LET Free(candidate) == ~ AlreadyExists(cells, candidate)
          IN  SelectSeq([k \in 1..(4 * Len(cells)) |->
                            PointPlus(cells[((k - 1) \div 4) + 1],
                                      directions[((k - 1) % 4) + 1])],
                        Free)
          : cells \in { poly } } : TRUE

\* The `candidates` set of getExtensions once both loops are over.
Candidates(poly) == PointSet(Inserted(poly))

\* ShapeGenerator::getExtensions: one extended shape per candidate, in the
\* candidates' order.
getExtensions(shape) ==
    CHOOSE r \in
        { [i \in 1..Len(candidates) |-> addCell(poly, candidates[i])]
          : poly \in { shape }, candidates \in { Candidates(shape) } } : TRUE

----------------------------------------------------------------------------
(* std::set<Polyomino>, ordered by Polyomino::operator< *)

\* A plausible slip: a container that keeps equivalent keys (a multiset).
PolySetInsertKeepAll(set, poly) ==
    CHOOSE r \in
        { LET k == Cardinality({ i \in 1..Len(s) : ~ PolyLess(p, s[i]) })
          IN  SubSeq(s, 1, k) \o << p >> \o SubSeq(s, k + 1, Len(s))
          : s \in { set }, p \in { poly } } : TRUE

\* std::set<Polyomino>::insert: a no-op when an equivalent key is present.
PolySetInsert(set, poly) ==
    CHOOSE r \in
        { IF \E i \in 1..Len(s) : ~ PolyLess(s[i], p) /\ ~ PolyLess(p, s[i])
             THEN s
             ELSE LET k == Cardinality({ i \in 1..Len(s) : ~ PolyLess(p, s[i]) })
                  IN  SubSeq(s, 1, k) \o << p >> \o SubSeq(s, k + 1, Len(s))
          : s \in { set }, p \in { poly } } : TRUE

----------------------------------------------------------------------------
(* State *)

VARIABLES
    pc,                \* position of the thread inside ShapeGenerator::enumerate
    N,                 \* config.N
    type,              \* config.type, also ShapeNormalizer::enumeration_type
    shapes_by_size,    \* std::vector<std::set<Polyomino>>, indexed 0..N
    size,              \* loop variable of `for (int size = 1; size < config.N; ++size)`
    next_size_shapes,  \* std::set<Polyomino> being filled for level size + 1
    shape_it,          \* position of `shape` in shapes_by_size[size]
    extensions,        \* result of getExtensions(shape)
    ext_it,            \* position of `ext` in extensions
    total_generated,   \* size_t total_generated
    tracker_calls,     \* arguments of every ProgressTracker::update call so far
    result,            \* the vector returned by enumerate
    h_type,            \* shape specification: the normalizer's type
    h_shape,           \* shape specification: the shape under test
    h_canonical,       \* shape specification: getCanonical(h_shape)
    h_extensions       \* shape specification: getExtensions(h_shape)

enum_vars == << pc, N, type, shapes_by_size, size, next_size_shapes, shape_it,
                extensions, ext_it, total_generated, tracker_calls, result >>

shape_vars == << h_type, h_shape, h_canonical, h_extensions >>

vars == << pc, N, type, shapes_by_size, size, next_size_shapes, shape_it,
           extensions, ext_it, total_generated, tracker_calls, result, h_type, h_shape, h_canonical, h_extensions >>

\* Polyomino({{0, 0}})
SingleCell == Polyomino(<< Point(0, 0) >>)

----------------------------------------------------------------------------
(* ShapeGenerator::enumerate *)

\* A plausible slip: the loop stops one level early.
LoopCondOffByOne(sz, n) == sz < n - 1

\* Loop condition of `for (int size = 1; size < config.N; ++size)`.
LoopCond(sz, n) == sz < n

\* A plausible slip: the increment is left out.
IncGeneratedForgotten(t) == t

\* total_generated++
IncGenerated(t) == t + 1

\* A call of ProgressTracker::update(current_size, unique_count,
\* total_generated): the arguments it receives. What update prints, and
\* whether it prints, depends on the clock only and is not modelled.
TrackerUpdate(current_size, unique_count, generated) ==
    tracker_calls' = Append(tracker_calls,
                            [current_size |-> current_size,
                             unique_count |-> unique_count,
                             total_generated |-> generated])

\* A generator constructed from a validated Config; enumerate not yet called.
Init ==
    /\ pc = "init"
    /\ N \in 1..MaxN
    /\ type \in Types
    /\ shapes_by_size = [k \in 0..N |-> << >>]
    /\ size = 0
    /\ next_size_shapes = << >>
    /\ shape_it = 0
    /\ extensions = << >>
    /\ ext_it = 0
    /\ total_generated = 0
    /\ tracker_calls = << >>
    /\ result = << >>
    /\ h_type = "free"
    /\ h_shape = << >>
    /\ h_canonical = << >>
    /\ h_extensions = << >>

\* Lines 324-334: the tracker, the seed shape, the counter, size = 1.
Seed ==
    /\ pc = "init"
    /\ shapes_by_size' = [k \in 0..N |-> IF k = 1 THEN PolySetInsert(<< >>, SingleCell)
                                                  ELSE << >>]
    /\ total_generated' = 0
    /\ size' = 1
    /\ pc' = "for_size"
    /\ UNCHANGED << N, type, next_size_shapes, shape_it, extensions, ext_it,
                    tracker_calls, result >>
    /\ UNCHANGED shape_vars

\* A plausible variant: the counter is declared inside the loop over the sizes.
BeginLevelResetCounter ==
    /\ pc = "for_size"
    /\ LoopCond(size, N)
    /\ next_size_shapes' = << >>
    /\ shape_it' = 1
    /\ total_generated' = 0
    /\ pc' = "for_shape"
    /\ UNCHANGED << N, type, shapes_by_size, size, extensions, ext_it,
                    tracker_calls, result >>
    /\ UNCHANGED shape_vars

\* Lines 334-337: the loop condition holds; a fresh next_size_shapes.
BeginLevel ==
    /\ pc = "for_size"
    /\ LoopCond(size, N)
    /\ next_size_shapes' = << >>
    /\ shape_it' = 1
    /\ pc' = "for_shape"
    /\ UNCHANGED << N, type, shapes_by_size, size, extensions, ext_it,
                    total_generated, tracker_calls, result >>
    /\ UNCHANGED shape_vars

\* Lines 337-338: the next shape of the level and its extensions.
GrowShape ==
    /\ pc = "for_shape"
    /\ shape_it <= Len(shapes_by_size[size])
    /\ extensions' = getExtensions(shapes_by_size[size][shape_it])
    /\ ext_it' = 1
    /\ pc' = "for_ext"
    /\ UNCHANGED << N, type, shapes_by_size, size, next_size_shapes, shape_it,
                    total_generated, tracker_calls, result >>
    /\ UNCHANGED shape_vars

\* Lines 340-351: one iteration of the loop over the extensions.
ProcessExtension ==
    /\ pc = "for_ext"
    /\ ext_it <= Len(extensions)
    /\ LET ext == extensions[ext_it]
           generated == IncGenerated(total_generated)
           canonical == getCanonical(type, ext)
           inserted == PolySetInsert(next_size_shapes, canonical)
       IN  /\ total_generated' = generated
           /\ next_size_shapes' = inserted
           /\ IF generated % ProgressEvery = 0
                 THEN TrackerUpdate(size + 1, Len(inserted), generated)
                 ELSE UNCHANGED tracker_calls
    /\ ext_it' = ext_it + 1
    /\ UNCHANGED << pc, N, type, shapes_by_size, size, shape_it, extensions, result >>
    /\ UNCHANGED shape_vars

\* Line 340/337: the extensions are exhausted; advance to the next shape.
NextShape ==
    /\ pc = "for_ext"
    /\ ext_it > Len(extensions)
    /\ shape_it' = shape_it + 1
    /\ extensions' = << >>
    /\ ext_it' = 0
    /\ pc' = "for_shape"
    /\ UNCHANGED << N, type, shapes_by_size, size, next_size_shapes,
                    total_generated, tracker_calls, result >>
    /\ UNCHANGED shape_vars

\* A plausible slip: the level is sealed when its last shape is still to be
\* processed.
SealLevelEarly ==
    /\ pc = "for_shape"
    /\ shape_it >= Len(shapes_by_size[size])
    /\ shapes_by_size' = [shapes_by_size EXCEPT ![size + 1] = next_size_shapes]
    /\ next_size_shapes' = << >>
    /\ shape_it' = 0
    /\ size' = size + 1
    /\ pc' = "for_size"
    /\ UNCHANGED << N, type, extensions, ext_it, total_generated, tracker_calls,
                    result >>
    /\ UNCHANGED shape_vars

\* Line 354 and ++size: the level is moved into shapes_by_size[size + 1].
SealLevel ==
    /\ pc = "for_shape"
    /\ shape_it > Len(shapes_by_size[size])
    /\ shapes_by_size' = [shapes_by_size EXCEPT ![size + 1] = next_size_shapes]
    /\ next_size_shapes' = << >>
    /\ shape_it' = 0
    /\ size' = size + 1
    /\ pc' = "for_size"
    /\ UNCHANGED << N, type, extensions, ext_it, total_generated, tracker_calls, result >>
    /\ UNCHANGED shape_vars

\* Lines 358-362: the loop condition fails; the final set becomes the result.
Finish ==
    /\ pc = "for_size"
    /\ ~ LoopCond(size, N)
    /\ result' = shapes_by_size[N]
    /\ pc' = "done"
    /\ UNCHANGED << N, type, shapes_by_size, size, next_size_shapes, shape_it,
                    extensions, ext_it, total_generated, tracker_calls >>
    /\ UNCHANGED shape_vars

Next ==
    \/ Seed
    \/ BeginLevel
    \/ GrowShape
    \/ ProcessExtension
    \/ NextShape
    \/ SealLevel
    \/ Finish

Spec == Init /\ [][Next]_vars

\* enumerate is one sequential thread: a step that can be taken is taken.
FairSpec == Spec /\ WF_vars(Next)

----------------------------------------------------------------------------
(* Shape specification: the pure operations of Polyomino, ShapeNormalizer    *)
(* and getExtensions applied to every shape that growth, rotation and        *)
(* reflection produce from the single cell, up to MaxCells cells.            *)

ShapeIs(t, s) ==
    /\ h_type' = t
    /\ h_shape' = s
    /\ h_canonical' = getCanonical(t, s)
    /\ h_extensions' = getExtensions(s)
    /\ UNCHANGED enum_vars

ShapeInit ==
    /\ pc = "shapes"
    /\ N = 1
    /\ type = "free"
    /\ shapes_by_size = << >>
    /\ size = 0
    /\ next_size_shapes = << >>
    /\ shape_it = 0
    /\ extensions = << >>
    /\ ext_it = 0
    /\ total_generated = 0
    /\ tracker_calls = << >>
    /\ result = << >>
    /\ h_type \in Types
    /\ h_shape = SingleCell
    /\ h_canonical = getCanonical(h_type, h_shape)
    /\ h_extensions = getExtensions(h_shape)

\* The shape is replaced by one of its extensions.
Extend ==
    /\ Len(h_shape) < MaxCells
    /\ \E i \in 1..Len(h_extensions) : ShapeIs(h_type, h_extensions[i])

\* The shape is replaced by shape.rotate().
Rotate == ShapeIs(h_type, rotate(h_shape))

\* The shape is replaced by shape.reflect().
Reflect == ShapeIs(h_type, reflect(h_shape))

\* The shape is replaced by its canonical form.
Canonicalize == ShapeIs(h_type, h_canonical)

ShapeNext ==
    \/ Extend
    \/ Rotate
    \/ Reflect
    \/ Canonicalize

ShapeSpec == ShapeInit /\ [][ShapeNext]_vars

----------------------------------------------------------------------------
(* Vocabulary of the properties *)

\* known_values of validateResults ("free"), N = 1..7.
known_values == << 1, 1, 2, 5, 12, 35, 108 >>

\* The one-sided and fixed columns of the README's validation table, N = 1..7.
readme_one_sided == << 1, 1, 2, 7, 18, 60, 196 >>
readme_fixed == << 1, 2, 6, 19, 63, 216, 760 >>

CellSet(poly) == { poly[i] : i \in 1..Len(poly) }

RECURSIVE ReachableFrom(_, _)
\* The cells of `all` reachable from `seen` through 4-adjacent cells of `all`.
ReachableFrom(seen, all) ==
    LET more == { c \in all \ seen :
                    \E s \in seen : \E d \in 1..Len(directions) :
                        PointPlus(s, directions[d]) = c }
    IN  IF more = {} THEN seen ELSE ReachableFrom(seen \cup more, all)

\* 4-connectivity of the cells of a shape.
IsConnected(poly) ==
    \/ poly = << >>
    \/ ReachableFrom({ poly[1] }, CellSet(poly)) = CellSet(poly)

\* No cell occurs twice.
NoDuplicateCells(poly) == Cardinality(CellSet(poly)) = Len(poly)

Done == pc = "done"

----------------------------------------------------------------------------
(* C1-C3: the counts *)

\* C1: in "free" mode the result of enumerate has 1, 1, 2, 5 and 12 shapes
\* for N = 1, 2, 3, 4 and 5.
C1_FreeCounts ==
    (Done /\ type = "free" /\ N \in 1..5) => Len(result) = known_values[N]

C1_Witness == Done /\ type = "free" /\ N = 5 /\ Len(result) = 12

\* C2: in "one-sided" mode mirror images stay distinct: 7 shapes for N = 4
\* and 18 for N = 5.
C2_OneSidedCounts ==
    (Done /\ type = "one-sided" /\ N \in 4..5) => Len(result) = readme_one_sided[N]

\* C3: in "fixed" mode every orientation is kept: 2 shapes for N = 2 and 6
\* for N = 3.
C3_FixedCounts ==
    (Done /\ type = "fixed" /\ N \in 2..3) => Len(result) = readme_fixed[N]

----------------------------------------------------------------------------
(* C4-C6: the pure operations, under ShapeSpec *)

\* The images of s under the transforms of the group a mode stands for:
\* the identity ("fixed"), the four rotations ("one-sided"), the four
\* rotations of s and of its reflection ("free").
GroupImages(mode, s) ==
    LET rot == Rotations(s)
        ref == Rotations(reflect(s))
    IN  CASE mode = "fixed" -> { s }
          [] mode = "one-sided" -> { rot[i] : i \in 1..4 }
          [] mode = "free" -> { rot[i] : i \in 1..4 } \cup { ref[i] : i \in 1..4 }

\* A shape whose mirror image is none of its rotations.
Chiral(s) == \A i \in 1..4 : Rotations(s)[i] # reflect(s)

\* C4: for every mode, shape s and transform T of the mode's group,
\* getCanonical(T(s)) = getCanonical(s).
C4_CanonicalInvariant ==
    \A t \in GroupImages(h_type, h_shape) : getCanonical(h_type, t) = h_canonical

C4_Witness ==
    /\ pc = "shapes"
    /\ h_type = "free"
    /\ Len(h_shape) = 4
    /\ Chiral(h_shape)
    /\ Cardinality(GroupImages(h_type, h_shape)) = 8
    /\ h_canonical # h_shape

\* C5: getCanonical(getCanonical(s)) = getCanonical(s) for every mode and shape.
C5_CanonicalIdempotent == getCanonical(h_type, h_canonical) = h_canonical

C5_Witness ==
    /\ pc = "shapes"
    /\ Len(h_shape) >= 3
    /\ h_canonical # h_shape
    /\ getCanonical(h_type, h_canonical) = h_canonical

\* C6: every extension of a connected, duplicate-free shape of k cells is
\* 4-connected and has exactly k + 1 distinct cells.
C6_ExtensionsConnected ==
    (pc = "shapes" /\ IsConnected(h_shape) /\ NoDuplicateCells(h_shape)) =>
        \A i \in 1..Len(h_extensions) :
            /\ IsConnected(h_extensions[i])
            /\ Len(h_extensions[i]) = Len(h_shape) + 1
            /\ NoDuplicateCells(h_extensions[i])

C6_Witness ==
    /\ pc = "shapes"
    /\ Len(h_shape) = 4
    /\ IsConnected(h_shape)
    /\ NoDuplicateCells(h_shape)
    /\ Len(h_extensions) >= 8
    /\ \A i \in 1..Len(h_extensions) : Len(h_extensions[i]) = 5

----------------------------------------------------------------------------
(* C7-C10: the level-wise loop, under Spec and FairSpec *)

\* The number of shapes getExtensions returns for a shape: one per candidate.
GrowthCount(shape) == Len(Candidates(shape))

RECURSIVE SumExtensions(_, _)
\* The number of growths getExtensions yields for the first n shapes of a level.
SumExtensions(level, n) ==
    IF n = 0 THEN 0
    ELSE SumExtensions(level, n - 1) + GrowthCount(level[n])

\* All growths of one complete level.
LevelGrowths(k) == SumExtensions(shapes_by_size[k], Len(shapes_by_size[k]))

\* The growths of the level being processed that the loops have gone through.
LevelGrowthsSoFar ==
    CASE pc = "for_shape" -> SumExtensions(shapes_by_size[size], shape_it - 1)
      [] pc = "for_ext" -> SumExtensions(shapes_by_size[size], shape_it - 1) + (ext_it - 1)
      [] OTHER -> 0

RECURSIVE GrowthsBelow(_)
\* All growths of the levels 1..k.
GrowthsBelow(k) == IF k <= 0 THEN 0 ELSE GrowthsBelow(k - 1) + LevelGrowths(k)

\* Every growth gone through since enumerate started.
TotalGrowthsSoFar ==
    IF pc \in {"for_shape", "for_ext"}
       THEN GrowthsBelow(size - 1) + LevelGrowthsSoFar
       ELSE GrowthsBelow(size - 1)

Building == pc \in {"for_shape", "for_ext"}

\* C7: enumerate terminates for every N >= 1; size only ever steps from k to
\* k + 1; it stops with size = N and returns exactly level N; for N = 1 that
\* is the single-cell shape and no growth was made.
C7_Terminates ==
    /\ <>Done
    /\ [][size' = size \/ size' = size + 1]_vars
    /\ [](Done => /\ size = N
                  /\ result = shapes_by_size[N]
                  /\ Len(result) >= 1
                  /\ (N = 1 => result = << SingleCell >> /\ total_generated = 0))

C7_Witness ==
    /\ Done
    /\ N >= 3
    /\ size = N
    /\ result = shapes_by_size[N]
    /\ Len(result) >= 2

\* C8: any two distinct entries of the result have different cell sequences.
C8_NoDuplicates ==
    Done => \A i, j \in 1..Len(result) : i # j => ~ PolyEq(result[i], result[j])

C8_Witness ==
    /\ Done
    /\ Len(result) >= 2
    /\ total_generated > Len(result)

\* C9: once enumerate is done, for every k in 1..N-1 the growths generated
\* from level k are at least as many as the unique shapes of level k + 1;
\* and while a level is built the in-progress set is never larger than the
\* growths gone through so far, nor than the counter.
C9_Monotonic ==
    /\ Done => \A k \in 1..(N - 1) : LevelGrowths(k) >= Len(shapes_by_size[k + 1])
    /\ Building => /\ Len(next_size_shapes) <= total_generated
                   /\ Len(next_size_shapes) <= LevelGrowthsSoFar

C9_Witness ==
    /\ Building
    /\ size >= 3
    /\ Len(next_size_shapes) >= 2
    /\ LevelGrowthsSoFar > Len(next_size_shapes)

LastCall == tracker_calls[Len(tracker_calls)]

\* The last iteration of the loop over the extensions called
\* ProgressTracker::update: nothing was counted since that call.
JustCalled ==
    /\ pc = "for_ext"
    /\ Len(tracker_calls) >= 1
    /\ LastCall.total_generated = total_generated

\* C10: the counter handed to ProgressTracker::update counts the growths of
\* the level being built only.
C10_CounterPerLevel ==
    JustCalled => LastCall.total_generated = LevelGrowthsSoFar

\* C10, amended: the counter handed to ProgressTracker::update counts every
\* growth since enumerate started, the earlier levels included; the first two
\* arguments are the size being built and the size of the in-progress set.
C10_CounterCumulative ==
    JustCalled => /\ LastCall.total_generated = TotalGrowthsSoFar
                  /\ LastCall.current_size = size + 1
                  /\ LastCall.unique_count = Len(next_size_shapes)

C10_Witness ==
    /\ JustCalled
    /\ LastCall.total_generated = ProgressEvery
    /\ LastCall.total_generated > LevelGrowthsSoFar
    /\ LevelGrowthsSoFar > 0

----------------------------------------------------------------------------
(* C11: the candidates of getExtensions, under ShapeSpec *)

\* The unoccupied cells that are 4-neighbours of a cell of the shape.
FreeNeighbours(poly) ==
    { PointPlus(c, directions[d]) : c \in CellSet(poly), d \in 1..Len(directions) }
        \ CellSet(poly)

\* C11: the list returned by getExtensions contains no two equal
\* (normalized) shapes.
C11_NoEqualExtensions ==
    pc = "shapes" =>
        \A i, j \in 1..Len(h_extensions) :
            i # j => ~ PolyEq(h_extensions[i], h_extensions[j])

\* C11, amended: getExtensions never uses the same candidate cell twice: the
\* candidates are pairwise different unoccupied neighbour cells, and the list
\* has exactly one shape per unoccupied neighbour cell. (Two of these shapes
\* may still be equal once normalized.)
C11_CandidatesDistinct ==
    pc = "shapes" =>
        /\ \A i, j \in 1..Len(Candidates(h_shape)) :
              i # j => Candidates(h_shape)[i] # Candidates(h_shape)[j]
        /\ { Candidates(h_shape)[i] : i \in 1..Len(Candidates(h_shape)) }
               = FreeNeighbours(h_shape)
        /\ Len(h_extensions) = Cardinality(FreeNeighbours(h_shape))

\* A shape with an unoccupied cell that two of its cells are neighbours of,
\* so that the same candidate was inserted twice.
C11_Witness ==
    /\ pc = "shapes"
    /\ Len(h_shape) >= 3
    /\ Len(Inserted(h_shape)) > Len(Candidates(h_shape))
    /\ Len(h_extensions) = Len(Candidates(h_shape))

----------------------------------------------------------------------------
(* C12: the order in which the levels are built, under Spec *)

\* The elements of a std::set or std::vector.
Elements(seq) == { seq[i] : i \in 1..Len(seq) }

\* The canonical forms of all growths of all shapes of a level.
CanonicalGrowths(level) ==
    { getCanonical(type, ext) :
        ext \in UNION { Elements(getExtensions(level[i])) : i \in 1..Len(level) } }

\* What holds of the levels in every state of enumerate.
C12_Levels ==
    (pc \in {"for_size", "for_shape", "for_ext", "done"}) =>
        \* the levels above the current one are still empty
        /\ \A k \in (size + 1)..N : shapes_by_size[k] = << >>
        \* every growth gone through was counted once
        /\ Building => total_generated = TotalGrowthsSoFar
        \* a level just sealed holds exactly the canonical forms of all
        \* growths of the level below, each counted once
        /\ (pc = "for_size" /\ size >= 2) =>
              /\ Elements(shapes_by_size[size]) = CanonicalGrowths(shapes_by_size[size - 1])
              /\ total_generated = GrowthsBelow(size - 1)

\* What holds of every step of enumerate: the levels 1..size do not change,
\* and size advances only from the end of the loop over the shapes, the
\* in-progress set becoming level size + 1.
C12_Step ==
    /\ \A k \in 1..size : shapes_by_size'[k] = shapes_by_size[k]
    /\ (size >= 1 /\ size' # size) =>
          /\ pc = "for_shape"
          /\ shape_it = Len(shapes_by_size[size]) + 1
          /\ size' = size + 1
          /\ shapes_by_size'[size + 1] = next_size_shapes

\* C12: level k + 1 is sealed only after every growth of every shape of
\* level k was canonicalized and inserted exactly once; level k is not
\* modified while level k + 1 is built; a sealed level never changes.
C12_LeftToRight == []C12_Levels /\ [][C12_Step]_vars

C12_Witness ==
    /\ pc = "for_size"
    /\ size = 4
    /\ N >= 5
    /\ Len(shapes_by_size[4]) >= 5
    /\ Elements(shapes_by_size[4]) = CanonicalGrowths(shapes_by_size[3])

----------------------------------------------------------------------------
(* C13: the shapes held by enumerate, under Spec *)

\* The cells are in strictly increasing order of Point::operator<, that is
\* by x and then by y.
CellsSorted(poly) ==
    \A i \in 1..(Len(poly) - 1) : PointLess(poly[i], poly[i + 1])

\* A well-formed shape of k cells.
WellFormed(poly, k) ==
    /\ Len(poly) = k
    /\ NoDuplicateCells(poly)
    /\ MinX(poly) = 0
    /\ MinY(poly) = 0
    /\ CellsSorted(poly)
    /\ IsConnected(poly)

\* C13: in every reachable state of the enumeration every shape of the
\* level-k set has exactly k cells and every shape of the in-progress set
\* has size + 1 cells, without duplicates, with minimum x and minimum y
\* both 0, sorted by (x, then y), and 4-connected.
C13_ShapeInvariant ==
    (pc \in {"for_size", "for_shape", "for_ext", "done"}) =>
        /\ \A k \in 1..N : \A i \in 1..Len(shapes_by_size[k]) :
              WellFormed(shapes_by_size[k][i], k)
        /\ \A i \in 1..Len(next_size_shapes) :
              WellFormed(next_size_shapes[i], size + 1)

C13_Witness ==
    /\ pc = "for_ext"
    /\ size >= 4
    /\ Len(next_size_shapes) >= 6
    /\ \E i \in 1..Len(next_size_shapes) :
          /\ WellFormed(next_size_shapes[i], size + 1)
          /\ next_size_shapes[i][size + 1].x >= 2
          /\ next_size_shapes[i][size + 1].y >= 1

====
